---- MODULE Spec2Model ----
(***************************************************************************)
(* Model of src/index.ts: a Pulumi program that provisions a Cognito user  *)
(* pool, an API Gateway with three Lambda routes (/config, /callback,      *)
(* /api) and an S3 object holding the client configuration, plus the       *)
(* request handlers themselves.                                            *)
(*                                                                         *)
(* Strings are sequences of atoms (each atom a run of characters), so that *)
(* template literals are concatenations and JSON.stringify / JSON.parse /  *)
(* query-string extraction are computed on the text, not assumed.          *)
(***************************************************************************)
EXTENDS Integers, Sequences, FiniteSets, TLC

\* Number of handler invocations that may be in flight or finished.
MaxInv == 2

\* ------------------------------------------------------------------ values

\* JS `undefined` (a missing property, an absent optional argument).
Undefined == <<"#undefined">>
\* JS `null` where a string may stand.
Null == <<"#null">>
\* JS `null` where an object may stand (API Gateway's queryStringParameters
\* when the URL has no query): objects are sequences of <<key, value>> pairs.
NullObject == << <<<<"#null">>, <<>>>> >>
\* No object (a field of an invocation that has not been assigned).
NoObject == << <<<<"#none">>, <<>>>> >>
\* An Output that has not resolved yet / a resource that does not exist yet.
Unset == <<"#unset">>
\* S3's answer for a key that holds no object.
NoSuchKey == <<"#NoSuchKey">>
\* No value (a field of an invocation that has not been assigned).
None == <<"#none">>

\* A value interpolated into a template literal: `${v}`.
Interp(v) == IF v = Undefined THEN <<"undefined">> ELSE IF v = Null THEN <<"null">> ELSE v

\* JS truthiness of a string-or-undefined value.
Truthy(v) == v # Undefined /\ v # Null /\ v # <<>>

\* Property lookup on an object held as a sequence of <<key, value>> pairs
\* (insertion order kept, the last duplicate wins as in JSON.parse).
Get(obj, key) ==
    LET idx == {n \in 1..Len(obj) : obj[n][1] = key}
    IN  IF idx = {} THEN Undefined
        ELSE obj[CHOOSE n \in idx : \A m \in idx : m <= n][2]

\* ------------------------------------------------------------------ JSON

Q == "\""
BS == "\\"

RECURSIVE Escape(_)
\* The string escaping of JSON.stringify: quote and backslash get a backslash.
Escape(s) ==
    IF s = <<>> THEN <<>>
    ELSE (IF Head(s) \in {Q, BS} THEN <<BS, Head(s)>> ELSE <<Head(s)>>) \o Escape(Tail(s))

Quote(s) == <<Q>> \o Escape(s) \o <<Q>>

RECURSIVE Members(_)
Members(obj) ==
    IF obj = <<>> THEN <<>>
    ELSE Quote(obj[1][1]) \o <<":">> \o Quote(obj[1][2])
         \o (IF Len(obj) > 1 THEN <<",">> ELSE <<>>) \o Members(Tail(obj))

\* JSON.stringify of an object whose values are strings.
JSONStringify(obj) == <<"{">> \o Members(obj) \o <<"}">>

SyntaxError == [ok |-> FALSE, value |-> <<>>, next |-> 0]

RECURSIVE ReadString(_, _, _)
\* Reads a string body from position i (just after the opening quote).
ReadString(t, i, acc) ==
    IF i > Len(t) THEN SyntaxError
    ELSE IF t[i] = Q THEN [ok |-> TRUE, value |-> acc, next |-> i + 1]
    ELSE IF t[i] = BS
         THEN IF i + 1 <= Len(t) /\ t[i + 1] \in {Q, BS}
              THEN ReadString(t, i + 2, Append(acc, t[i + 1]))
              ELSE SyntaxError
    ELSE ReadString(t, i + 1, Append(acc, t[i]))

ParseString(t, i) ==
    IF i <= Len(t) /\ t[i] = Q THEN ReadString(t, i + 1, <<>>) ELSE SyntaxError

RECURSIVE ParseMembers(_, _, _)
\* Reads  "key":"value" (, "key":"value")* }  from position i.
ParseMembers(t, i, acc) ==
    LET k == ParseString(t, i)
    IN  IF ~k.ok \/ k.next > Len(t) \/ t[k.next] # ":" THEN SyntaxError
        ELSE LET v == ParseString(t, k.next + 1)
                 obj == Append(acc, <<k.value, v.value>>)
             IN  IF ~v.ok \/ v.next > Len(t) THEN SyntaxError
                 ELSE IF t[v.next] = "," THEN ParseMembers(t, v.next + 1, obj)
                 ELSE IF t[v.next] = "}" /\ v.next = Len(t)
                      THEN [ok |-> TRUE, value |-> obj, next |-> v.next + 1]
                 ELSE SyntaxError

\* JSON.parse, for the texts this program meets: an object of string values,
\* or something that is not JSON at all. ok = FALSE is a thrown SyntaxError.
JSONParse(t) ==
    IF Len(t) < 2 \/ t[1] # "{" THEN SyntaxError
    ELSE IF t = <<"{", "}">> THEN [ok |-> TRUE, value |-> <<>>, next |-> 3]
    ELSE ParseMembers(t, 2, <<>>)

\* ------------------------------------------------- query strings and forms

RECURSIVE IndexOf(_, _, _)
\* First position >= i of atom a in s, or 0.
IndexOf(s, a, i) ==
    IF i > Len(s) THEN 0 ELSE IF s[i] = a THEN i ELSE IndexOf(s, a, i + 1)

RECURSIVE FormPairs(_)
\* The k=v pairs of an application/x-www-form-urlencoded text, split on "&"
\* and on the first "=" of each part.
FormPairs(s) ==
    IF s = <<>> THEN <<>>
    ELSE LET amp  == IndexOf(s, "&", 1)
             part == IF amp = 0 THEN s ELSE SubSeq(s, 1, amp - 1)
             rest == IF amp = 0 THEN <<>> ELSE SubSeq(s, amp + 1, Len(s))
             eq   == IndexOf(part, "=", 1)
             pair == IF eq = 0 THEN <<part, <<>>>>
                     ELSE <<SubSeq(part, 1, eq - 1), SubSeq(part, eq + 1, Len(part))>>
         IN  <<pair>> \o FormPairs(rest)

\* The query part of a URL (after the first "?").
UrlQuery(url) ==
    LET q == IndexOf(url, "?", 1)
    IN  IF q = 0 THEN <<>> ELSE SubSeq(url, q + 1, Len(url))

\* params.join("&")
RECURSIVE Join(_, _)
Join(parts, sep) ==
    IF parts = <<>> THEN <<>>
    ELSE IF Len(parts) = 1 THEN parts[1]
    ELSE parts[1] \o sep \o Join(Tail(parts), sep)

\* ------------------------------------------------------ program constants

authDomain == <<"cnunciato-test">>
region == <<"us-east-1">>

\* The values the deployment may give the custom-domain settings: the ones in
\* the source, or empty ("If using a custom domain, set these up also").
GatewayDomains == {<<>>, <<"nunciato.org">>}
BasePaths == {<<"stage">>}

\* api.url once the gateway is deployed: the generated execute-api URL.
GeneratedUrl == <<"https://a1b2c3.execute-api.us-east-1.amazonaws.com/stage/">>

\* The identifiers Cognito may issue for the user pool client.
ClientIds == {<<"client7f3a">>, <<"client90bc">>}

\* Authorization codes a user agent may present, and the identity token the
\* identity provider issues for each.
Codes == {<<"codeA">>, <<"codeB">>}
TokenFor(code) == IF code = <<"codeA">> THEN <<"tokX">> ELSE <<"tokY">>
Tokens == {TokenFor(c) : c \in Codes}

\* ------------------------------------------------------------------- state

VARIABLES
    gatewayDomain,  \* deployment setting (const gatewayDomain)
    basePath,       \* deployment setting (const basePath)
    pool,           \* the user pool exists
    domain,         \* domain.domain, Unset until the pool domain exists
    api,            \* api.url, Unset until the gateway is deployed
    client,         \* the user pool client registration
    config,         \* the `config` Output: Unset, or the serialized AppConfig
    bucket,         \* the bucket exists
    bucketObject,   \* the BucketObject resource has been created
    store,          \* body of the bucket's object "config.json", or NoSuchKey
    inv             \* the handler invocations

vars == <<gatewayDomain, basePath, pool, domain, api, client, config, bucket,
          bucketObject, store, inv>>

provisioning == <<gatewayDomain, basePath, pool, domain, api, client, config,
                  bucket, bucketObject>>

Invocations == 1..MaxInv

\* ---------------------------------------------------------- URL derivation

gatewayHostname == <<"api.">> \o gatewayDomain

useCustomDomain == Truthy(gatewayDomain) /\ Truthy(gatewayHostname) /\ Truthy(basePath)

\* getAPIUrl(path?): Unset while the Output it returns has not resolved.
getAPIUrl(path) ==
    IF useCustomDomain
    THEN <<"https://">> \o gatewayHostname \o <<"/">> \o basePath \o <<"/">>
         \o (IF Truthy(path) THEN path \o <<"/">> ELSE <<>>)
    ELSE api

\* ------------------------------------------------------------ provisioning

NoClient == [status |-> "pending", id |-> Unset, callbackUrls |-> <<>>, logoutUrls |-> <<>>]

CreatePool ==
    /\ ~pool
    /\ pool' = TRUE
    /\ UNCHANGED <<gatewayDomain, basePath, domain, api, client, config, bucket,
                   bucketObject, store, inv>>

CreateDomain ==
    /\ pool /\ domain = Unset
    /\ domain' = authDomain
    /\ UNCHANGED <<gatewayDomain, basePath, pool, api, client, config, bucket,
                   bucketObject, store, inv>>

CreateBucket ==
    /\ ~bucket
    /\ bucket' = TRUE
    /\ UNCHANGED <<gatewayDomain, basePath, pool, domain, api, client, config,
                   bucketObject, store, inv>>

\* The gateway's Lambdas close over `bucket` and its authorizer over `pool`.
CreateApi ==
    /\ pool /\ bucket /\ api = Unset
    /\ api' = GeneratedUrl
    /\ UNCHANGED <<gatewayDomain, basePath, pool, domain, client, config, bucket,
                   bucketObject, store, inv>>

\* The inputs of the client registration have resolved.
ClientInputsResolved ==
    pool /\ getAPIUrl(<<"callback">>) # Unset /\ getAPIUrl(<<"logout">>) # Unset

\* The registration succeeds and Cognito issues the identifier `id`.
CreateClient(id) ==
    /\ client.status = "pending" /\ ClientInputsResolved
    /\ client' = [status |-> "created", id |-> id,
                  callbackUrls |-> <<getAPIUrl(<<"callback">>)>>,
                  logoutUrls |-> <<getAPIUrl(<<"logout">>)>>]
    /\ UNCHANGED <<gatewayDomain, basePath, pool, domain, api, config, bucket,
                   bucketObject, store, inv>>

\* The registration fails: client.id never resolves.
CreateClientFails ==
    /\ client.status = "pending" /\ ClientInputsResolved
    /\ client' = [client EXCEPT !.status = "failed"]
    /\ UNCHANGED <<gatewayDomain, basePath, pool, domain, api, config, bucket,
                   bucketObject, store, inv>>

\* AppConfigJson with the authorization URLs built on the API URL instead of
\* the callback URL.
AppConfigJsonBaseRedirect(clientID, apiUrl, callbackUrl, authEndpoint) ==
    LET cognitoUrl == <<"https://">> \o Interp(authEndpoint) \o <<".auth.">> \o region
                      \o <<".amazoncognito.com">>
        cognitoUrlParams == <<"client_id", "=">> \o Interp(clientID)
                            \o <<"&", "response_type", "=", "code", "&", "redirect_uri", "=">>
                            \o Interp(apiUrl)
    IN  JSONStringify(<<
            <<<<"clientID">>, clientID>>,
            <<<<"apiUrl">>, apiUrl>>,
            <<<<"redirectUrl">>, callbackUrl>>,
            <<<<"authEndpoint">>, cognitoUrl>>,
            <<<<"signUpUrl">>, cognitoUrl \o <<"/signup", "?">> \o cognitoUrlParams>>,
            <<<<"signInUrl">>, cognitoUrl \o <<"/login", "?">> \o cognitoUrlParams>> >>)

\* The callback given to pulumi.all(...).apply: the serialized AppConfig.
AppConfigJson(clientID, apiUrl, callbackUrl, authEndpoint) ==
    LET cognitoUrl == <<"https://">> \o Interp(authEndpoint) \o <<".auth.">> \o region
                      \o <<".amazoncognito.com">>
        cognitoUrlParams == <<"client_id", "=">> \o Interp(clientID)
                            \o <<"&", "response_type", "=", "code", "&", "redirect_uri", "=">>
                            \o Interp(callbackUrl)
    IN  JSONStringify(<<
            <<<<"clientID">>, clientID>>,
            <<<<"apiUrl">>, apiUrl>>,
            <<<<"redirectUrl">>, callbackUrl>>,
            <<<<"authEndpoint">>, cognitoUrl>>,
            <<<<"signUpUrl">>, cognitoUrl \o <<"/signup", "?">> \o cognitoUrlParams>>,
            <<<<"signInUrl">>, cognitoUrl \o <<"/login", "?">> \o cognitoUrlParams>> >>)

\* AllResolved without waiting for client.id.
AllResolvedWithoutClient ==
    /\ getAPIUrl(Undefined) # Unset
    /\ getAPIUrl(<<"callback">>) # Unset
    /\ domain # Unset

\* pulumi.all([client.id, getAPIUrl(), getAPIUrl("callback"), domain.domain]):
\* every Output of the list has resolved.
AllResolved ==
    /\ client.id # Unset
    /\ getAPIUrl(Undefined) # Unset
    /\ getAPIUrl(<<"callback">>) # Unset
    /\ domain # Unset

\* The apply callback runs once all its inputs are known.
ResolveConfig ==
    /\ config = Unset /\ AllResolved
    /\ config' = AppConfigJson(client.id, getAPIUrl(Undefined), getAPIUrl(<<"callback">>), domain)
    /\ UNCHANGED <<gatewayDomain, basePath, pool, domain, api, client, bucket,
                   bucketObject, store, inv>>

\* new aws.s3.BucketObject(configFilename, {bucket, content: config})
CreateBucketObject ==
    /\ bucket /\ config # Unset /\ ~bucketObject
    /\ bucketObject' = TRUE
    /\ store' = config
    /\ UNCHANGED <<gatewayDomain, basePath, pool, domain, api, client, config,
                   bucket, inv>>

\* ------------------------------------------------------------ the handlers

\* What a handler invocation ends in: a returned response, or a thrown error
\* (statusCode 0: the handler produced no response).
Response(status, body, headers) ==
    [kind |-> "response", statusCode |-> status, body |-> body, headers |-> headers,
     error |-> ""]

Thrown(name) ==
    [kind |-> "throw", statusCode |-> 0, body |-> <<>>, headers |-> <<>>, error |-> name]

Pending == [kind |-> "pending", statusCode |-> 0, body |-> <<>>, headers |-> <<>>, error |-> ""]

NoReply == [kind |-> "none", body |-> <<>>]
NoRequest == [url |-> None, method |-> "", contentType |-> <<>>, body |-> None]

Idle ==
    [route |-> "none", pc |-> "idle", query |-> NullObject, cfg |-> NoObject,
     request |-> NoRequest, posts |-> 0, reply |-> NoReply, out |-> Pending, log |-> <<>>]

\* event.queryStringParameters of the requests a user agent may send.
Queries ==
    {NullObject, << <<<<"state">>, <<"xyz">>>> >>, << <<<<"code">>, <<>>>> >>}
    \cup {<< <<<<"code">>, c>> >> : c \in Codes}

\* What the fetch of the token endpoint may come to: a transport failure, or
\* a response whose body is a token set, an OAuth error object, or not JSON.
FailedReply == [kind |-> "failed", body |-> <<>>]

TokenReply(t) ==
    [kind |-> "body",
     body |-> JSONStringify(<< <<<<"id_token">>, t>>, <<<<"token_type">>, <<"Bearer">>>> >>)]

ErrorReply == [kind |-> "body", body |-> JSONStringify(<< <<<<"error">>, <<"invalid_grant">>>> >>)]

HtmlReply == [kind |-> "body", body |-> <<"<html>", "Bad Gateway", "</html>">>]

\* What the fetch carrying `code` may come to.
IdpReplies(code) == {FailedReply, ErrorReply, HtmlReply, TokenReply(TokenFor(code))}

AllReplies == UNION {IdpReplies(c) : c \in Codes \cup {Undefined}}

\* A body the object "config.json" may hold that is not the published
\* config (a truncated document), written to the bucket by something other
\* than this program.
ForeignBodies == {<<"{", Q, "clientID", Q, ":">>}

\* getAppConfig falling back to an empty config when the object is missing.
getAppConfigOrDefault(obj) ==
    IF obj = NoSuchKey \/ obj = Undefined THEN [ok |-> TRUE, error |-> "", value |-> <<>>]
    ELSE LET parsed == JSONParse(obj)
         IN  IF parsed.ok THEN [ok |-> TRUE, error |-> "", value |-> parsed.value]
             ELSE [ok |-> FALSE, error |-> "SyntaxError", value |-> <<>>]

\* getAppConfig(), given what s3.getObject finds at "config.json".
getAppConfig(obj) ==
    IF obj = NoSuchKey THEN [ok |-> FALSE, error |-> "NoSuchKey", value |-> <<>>]
    ELSE IF obj = Undefined THEN [ok |-> FALSE, error |-> "Doh!", value |-> <<>>]
    ELSE LET parsed == JSONParse(obj)
         IN  IF parsed.ok THEN [ok |-> TRUE, error |-> "", value |-> parsed.value]
             ELSE [ok |-> FALSE, error |-> "SyntaxError", value |-> <<>>]

\* HasCode with the test of the `code` property left out.
HasCodeParamsOnly(query) == query # NullObject

\* The negation of the /callback guard:
\* !event.queryStringParameters || !event.queryStringParameters.code
HasCode(query) == query # NullObject /\ Truthy(Get(query, <<"code">>))

BadRequest == Response(400, <<"Bad request. Code property was missing.">>, <<>>)

\* The fetch the /callback handler issues.
TokenRequest(cfg, code) ==
    [url |-> Interp(Get(cfg, <<"authEndpoint">>)) \o <<"/oauth2/token">>,
     method |-> "POST",
     contentType |-> <<"application/x-www-form-urlencoded">>,
     body |-> Join(<< <<"grant_type", "=", "authorization_code">>,
                      <<"client_id", "=">> \o Interp(Get(cfg, <<"clientID">>)),
                      <<"redirect_uri", "=">> \o Interp(Get(cfg, <<"redirectUrl">>)),
                      <<"code", "=">> \o Interp(code) >>, <<"&">>)]

\* RespJson with failures swallowed: an empty token set instead of a throw.
RespJsonOrEmpty(reply) ==
    IF reply.kind = "failed" THEN [ok |-> TRUE, error |-> "", value |-> <<>>]
    ELSE LET parsed == JSONParse(reply.body)
         IN  [ok |-> TRUE, error |-> "", value |-> IF parsed.ok THEN parsed.value ELSE <<>>]

\* await fetch(...) then await resp.json(): the parsed token set, or a throw.
RespJson(reply) ==
    IF reply.kind = "failed" THEN [ok |-> FALSE, error |-> "FetchError", value |-> <<>>]
    ELSE LET parsed == JSONParse(reply.body)
         IN  IF parsed.ok THEN [ok |-> TRUE, error |-> "", value |-> parsed.value]
             ELSE [ok |-> FALSE, error |-> "SyntaxError", value |-> <<>>]

\* CallbackResponse with the token left out of the Location header.
CallbackResponseBareLocation(cfg, token) ==
    Response(302, JSONStringify(<<>>),
             << <<"Set-Cookie", <<"id", "=">> \o Interp(Get(token, <<"id_token">>))>>,
                <<"Location", Interp(Get(cfg, <<"apiUrl">>))>> >>)

\* The response the /callback handler returns for a parsed token set.
CallbackResponse(cfg, token) ==
    Response(302, JSONStringify(<<>>),
             << <<"Set-Cookie", <<"id", "=">> \o Interp(Get(token, <<"id_token">>))>>,
                <<"Location", Interp(Get(cfg, <<"apiUrl">>)) \o <<"?", "id", "=">>
                              \o Interp(Get(token, <<"id_token">>))>> >>)

\* ExchangeResult read from a slot shared by all invocations: the reply of
\* another invocation, when one has arrived.
ExchangeResultShared(i, reply) ==
    LET others == {j \in Invocations : j # i /\ inv[j].reply.kind # "none"}
    IN  IF others = {} THEN reply ELSE inv[CHOOSE j \in others : TRUE].reply

\* The reply the handler of invocation i reads its token set from.
ExchangeResult(i, reply) == reply

\* A request reaches a handler once the gateway is deployed; slots are taken
\* in order.
CanInvoke(i) ==
    /\ api # Unset
    /\ inv[i].pc = "idle"
    /\ \A j \in Invocations : j < i => inv[j].pc # "idle"

\* GET /config: the handler starts and awaits getAppConfig().
InvokeConfig(i) ==
    /\ CanInvoke(i)
    /\ inv' = [inv EXCEPT ![i] = [@ EXCEPT !.route = "config", !.pc = "getObject",
                                             !.log = <<"read">>]]
    /\ UNCHANGED <<provisioning, store>>

\* s3.getObject answers; the /config handler finishes.
ConfigGetObject(i) ==
    /\ inv[i].route = "config" /\ inv[i].pc = "getObject"
    /\ LET c == getAppConfig(store)
       IN  inv' = [inv EXCEPT ![i] = [@ EXCEPT
               !.out = IF c.ok THEN Response(200, JSONStringify(c.value), <<>>)
                       ELSE Thrown(c.error),
               !.pc = "done",
               !.log = Append(@, IF c.ok THEN "respond" ELSE "throw")]]
    /\ UNCHANGED <<provisioning, store>>

\* GET /callback: validation, then either 400 or the await of getAppConfig().
InvokeCallback(i, q) ==
    /\ CanInvoke(i)
    /\ inv' = [inv EXCEPT ![i] =
                 IF HasCode(q)
                 THEN [@ EXCEPT !.route = "callback", !.query = q, !.pc = "getObject",
                                !.log = <<"validate", "read">>]
                 ELSE [@ EXCEPT !.route = "callback", !.query = q, !.pc = "done",
                                !.out = BadRequest, !.log = <<"validate", "respond">>]]
    /\ UNCHANGED <<provisioning, store>>

\* s3.getObject answers; the /callback handler throws or issues its fetch.
CallbackGetObject(i) ==
    /\ inv[i].route = "callback" /\ inv[i].pc = "getObject"
    /\ LET c == getAppConfig(store)
       IN  inv' = [inv EXCEPT ![i] =
               IF c.ok
               THEN [@ EXCEPT !.cfg = c.value,
                              !.request = TokenRequest(c.value, Get(inv[i].query, <<"code">>)),
                              !.posts = @ + 1, !.pc = "fetch", !.log = Append(@, "post")]
               ELSE [@ EXCEPT !.out = Thrown(c.error), !.pc = "done",
                              !.log = Append(@, "throw")]]
    /\ UNCHANGED <<provisioning, store>>

\* CallbackFetchDone that issues the POST again after a failed exchange.
CallbackFetchDoneRetry(i, reply) ==
    /\ inv[i].route = "callback" /\ inv[i].pc = "fetch"
    /\ reply \in IdpReplies(Get(inv[i].query, <<"code">>))
    /\ LET token == RespJson(ExchangeResult(i, reply))
       IN  inv' = [inv EXCEPT ![i] =
               IF ~token.ok /\ inv[i].posts < 2
               THEN [@ EXCEPT !.posts = @ + 1, !.log = @ \o <<"fetched", "post">>]
               ELSE [@ EXCEPT
                       !.reply = reply,
                       !.out = IF token.ok THEN CallbackResponse(inv[i].cfg, token.value)
                               ELSE Thrown(token.error),
                       !.pc = "done",
                       !.log = @ \o <<"fetched", IF token.ok THEN "respond" ELSE "throw">>]]
    /\ UNCHANGED <<provisioning, store>>

\* The fetch settles with `reply`; the /callback handler finishes.
CallbackFetchDone(i, reply) ==
    /\ inv[i].route = "callback" /\ inv[i].pc = "fetch"
    /\ reply \in IdpReplies(Get(inv[i].query, <<"code">>))
    /\ LET token == RespJson(ExchangeResult(i, reply))
       IN  inv' = [inv EXCEPT ![i] = [@ EXCEPT
               !.reply = reply,
               !.out = IF token.ok THEN CallbackResponse(inv[i].cfg, token.value)
                       ELSE Thrown(token.error),
               !.pc = "done",
               !.log = @ \o <<"fetched", IF token.ok THEN "respond" ELSE "throw">>]]
    /\ UNCHANGED <<provisioning, store>>

\* GET /api, past the Cognito authorizer.
InvokeApi(i) ==
    /\ CanInvoke(i)
    /\ inv' = [inv EXCEPT ![i] = [@ EXCEPT
               !.route = "api", !.pc = "done",
               !.out = Response(200, <<"{", Q, "awesome", Q, ":", "true", "}">>, <<>>),
               !.log = <<"respond">>]]
    /\ UNCHANGED <<provisioning, store>>

\* Something other than this program overwrites the object.
ForeignPut(b) ==
    /\ bucket /\ store # b
    /\ store' = b
    /\ UNCHANGED <<provisioning, inv>>

\* ----------------------------------------------------------- specification

Init ==
    /\ gatewayDomain \in GatewayDomains
    /\ basePath \in BasePaths
    /\ pool = FALSE
    /\ domain = Unset
    /\ api = Unset
    /\ client = NoClient
    /\ config = Unset
    /\ bucket = FALSE
    /\ bucketObject = FALSE
    /\ store = NoSuchKey
    /\ inv = [i \in Invocations |-> Idle]

Next ==
    \/ CreatePool
    \/ CreateDomain
    \/ CreateBucket
    \/ CreateApi
    \/ \E id \in ClientIds : CreateClient(id)
    \/ CreateClientFails
    \/ ResolveConfig
    \/ CreateBucketObject
    \/ \E b \in ForeignBodies : ForeignPut(b)
    \/ \E i \in Invocations : InvokeConfig(i)
    \/ \E i \in Invocations : ConfigGetObject(i)
    \/ \E i \in Invocations, q \in Queries : InvokeCallback(i, q)
    \/ \E i \in Invocations : CallbackGetObject(i)
    \/ \E i \in Invocations, reply \in AllReplies : CallbackFetchDone(i, reply)
    \/ \E i \in Invocations : InvokeApi(i)

Spec == Init /\ [][Next]_vars

\* ------------------------------------------------------------------ claims

HasKey(obj, key) == \E n \in 1..Len(obj) : obj[n][1] = key

IsCallback(i) == inv[i].route = "callback"

Finished(i) == inv[i].pc = "done"

Redirects(out) ==
    \/ out.kind = "response" /\ out.statusCode = 302
    \/ Get(out.headers, "Set-Cookie") # Undefined
    \/ Get(out.headers, "Location") # Undefined

\* C1: a /callback invocation whose query has no `code` parameter ends at
\* once with status 400 and has issued neither the Config Store read nor the
\* token-exchange POST.
C1_NoCodeIs400 ==
    \A i \in Invocations :
        IsCallback(i) /\ ~HasKey(inv[i].query, <<"code">>) =>
            /\ Finished(i)
            /\ inv[i].out.kind = "response" /\ inv[i].out.statusCode = 400
            /\ inv[i].posts = 0 /\ inv[i].request = NoRequest /\ inv[i].reply = NoReply
            /\ inv[i].cfg = NoObject
            /\ inv[i].log = <<"validate", "respond">>

\* Both shapes of a code-less query answered 400, config published.
C1_Witness ==
    /\ bucketObject /\ store = config
    /\ IsCallback(1) /\ inv[1].query = NullObject /\ inv[1].out.statusCode = 400
    /\ IsCallback(2) /\ inv[2].query # NullObject /\ ~HasKey(inv[2].query, <<"code">>)
    /\ inv[2].out.statusCode = 400

\* C2: when the identity provider's body is JSON without id_token, the
\* /callback invocation ends in a thrown error: no 302, no Set-Cookie, no
\* Location.
C2_NoIdTokenThrows ==
    \A i \in Invocations :
        IsCallback(i) /\ Finished(i) /\ inv[i].reply.kind = "body" =>
            \A parsed \in {JSONParse(inv[i].reply.body)} :
                parsed.ok /\ ~HasKey(parsed.value, <<"id_token">>) =>
                    inv[i].out.kind = "throw" /\ ~Redirects(inv[i].out)

\* C3: when the POST fails at transport level or its body is not JSON, the
\* /callback invocation ends in a thrown error: no 302, no Set-Cookie, no
\* Location, no response at all.
C3_FailedExchangeThrows ==
    \A i \in Invocations :
        (/\ IsCallback(i) /\ Finished(i)
         /\ \/ inv[i].reply.kind = "failed"
            \/ inv[i].reply.kind = "body" /\ ~JSONParse(inv[i].reply.body).ok) =>
            inv[i].out.kind = "throw" /\ ~Redirects(inv[i].out)

\* One invocation met a transport failure, another a body that is not JSON.
C3_Witness ==
    /\ IsCallback(1) /\ Finished(1) /\ inv[1].reply = FailedReply
    /\ IsCallback(2) /\ Finished(2) /\ inv[2].reply = HtmlReply

\* C4: with the published config read and an identity-provider body holding
\* id_token = T, the response is 302 with Set-Cookie exactly id=T and
\* Location exactly the deployment's API URL followed by ?id=T.
C4_SuccessRedirect ==
    \A i \in Invocations : \A t \in Tokens :
        IsCallback(i) /\ Finished(i) /\ inv[i].reply = TokenReply(t) =>
            /\ bucketObject
            /\ inv[i].out.kind = "response" /\ inv[i].out.statusCode = 302
            /\ Get(inv[i].out.headers, "Set-Cookie") = <<"id", "=">> \o t
            /\ Get(inv[i].out.headers, "Location") = getAPIUrl(Undefined) \o <<"?", "id", "=">> \o t
            /\ Len(inv[i].out.headers) = 2

\* Two exchanges succeeded with different tokens.
C4_Witness ==
    \E t, u \in Tokens :
        /\ t # u
        /\ IsCallback(1) /\ Finished(1) /\ inv[1].reply = TokenReply(t)
        /\ IsCallback(2) /\ Finished(2) /\ inv[2].reply = TokenReply(u)

ReadsConfig(i) == inv[i].route = "config" /\ inv[i].pc = "getObject" /\ inv'[i].pc = "done"

\* C5: a /config invocation ends by what the store holds at its read: a
\* thrown error and never a 200 when there is no object or one that does not
\* parse, and otherwise a 200 whose body is the store's object, text for text,
\* which is the config that was written.
C5_ConfigFetch ==
    /\ [][\A i \in Invocations :
            ReadsConfig(i) =>
                \A parsed \in {JSONParse(store)} :
                    IF store = NoSuchKey \/ ~parsed.ok
                    THEN inv'[i].out.kind = "throw" /\ inv'[i].out.statusCode # 200
                    ELSE /\ inv'[i].out.kind = "response" /\ inv'[i].out.statusCode = 200
                         /\ inv'[i].out.body = store
                         /\ store = config /\ bucketObject]_vars
    /\ [](\A i \in Invocations :
            inv[i].route = "config" /\ Finished(i) =>
                \/ inv[i].out.kind = "throw" /\ inv[i].out.error \in {"NoSuchKey", "SyntaxError"}
                \/ /\ inv[i].out.kind = "response" /\ inv[i].out.statusCode = 200
                   /\ inv[i].out.body = config /\ bucketObject)

\* One /config invocation read before the write and threw, a later one got
\* the published config.
C5_Witness ==
    /\ inv[1].route = "config" /\ Finished(1) /\ inv[1].out = Thrown("NoSuchKey")
    /\ inv[2].route = "config" /\ Finished(2) /\ inv[2].out.statusCode = 200
    /\ inv[2].out.body = store

AppConfigFields ==
    {<<"clientID">>, <<"redirectUrl">>, <<"authEndpoint">>, <<"apiUrl">>, <<"signUpUrl">>,
     <<"signInUrl">>}

\* A string that is set: not empty, and holding no unresolved or undefined part.
IsSet(v) ==
    /\ Truthy(v)
    /\ \A n \in 1..Len(v) : v[n] \notin {"#unset", "#undefined", "#null", "undefined", "null"}

\* C6: the store holds a config only once the registration has issued its
\* identifier: always, a config in the store (or resolved) has its six fields
\* set and the issued clientID, and without an issued identifier the store
\* holds none.
C6_PublishAfterRegistration ==
    [](/\ bucketObject \/ config # Unset => client.status = "created" /\ client.id \in ClientIds
       /\ \A t \in {store, config} : \A parsed \in {JSONParse(t)} :
             parsed.ok =>
                 \A c \in {parsed.value} :
                     /\ {c[n][1] : n \in 1..Len(c)} = AppConfigFields /\ Len(c) = 6
                     /\ \A f \in AppConfigFields : IsSet(Get(c, f))
                     /\ Get(c, <<"clientID">>) = client.id
       /\ client.status # "created" => store \in {NoSuchKey} \cup ForeignBodies)

\* The config is in the store.
C6_Witness == bucketObject /\ JSONParse(store).ok /\ store = config

\* C7: always, in a published config the redirect_uri of signUpUrl and
\* signInUrl is redirectUrl, which is the registered callback URL, and their
\* client_id is clientID; the token-exchange POST sends these same two values.
C7_RoundTrip ==
    [](/\ \A t \in {store, config} : \A parsed \in {JSONParse(t)} :
             parsed.ok =>
                 \A c \in {parsed.value} :
                     /\ client.callbackUrls = <<Get(c, <<"redirectUrl">>)>>
                     /\ client.id = Get(c, <<"clientID">>)
                     /\ \A u \in {Get(c, <<"signUpUrl">>), Get(c, <<"signInUrl">>)} :
                           \A q \in {FormPairs(UrlQuery(u))} :
                               /\ Get(q, <<"redirect_uri">>) = Get(c, <<"redirectUrl">>)
                               /\ Get(q, <<"client_id">>) = Get(c, <<"clientID">>)
       /\ \A i \in Invocations :
             IsCallback(i) /\ inv[i].posts > 0 =>
                 \A form \in {FormPairs(inv[i].request.body)} :
                     /\ client.callbackUrls = <<Get(form, <<"redirect_uri">>)>>
                     /\ Get(form, <<"client_id">>) = client.id)

\* A token exchange was sent under the custom domain.
C7_Witness ==
    /\ useCustomDomain /\ store = config
    /\ \E i \in Invocations : IsCallback(i) /\ inv[i].posts > 0

\* C8: in both domain modes the registered callback and logout URLs are the
\* gateway base URL followed by the callback and logout path.
C8_RouteSuffix ==
    client.status = "created" =>
        /\ client.callbackUrls[1] \in {getAPIUrl(Undefined) \o <<"callback">>,
                                       getAPIUrl(Undefined) \o <<"callback", "/">>}
        /\ client.logoutUrls[1] \in {getAPIUrl(Undefined) \o <<"logout">>,
                                     getAPIUrl(Undefined) \o <<"logout", "/">>}

WithCode(i) == IsCallback(i) /\ Truthy(Get(inv[i].query, <<"code">>))

CallbackOrders ==
    {<<"validate", "read">>,
     <<"validate", "read", "throw">>,
     <<"validate", "read", "post">>,
     <<"validate", "read", "post", "fetched", "throw">>,
     <<"validate", "read", "post", "fetched", "respond">>}

\* C9: a /callback invocation with a code validates, reads the store, POSTs,
\* responds, in that order; it POSTs at most once, not at all when the read
\* failed, and returns a response only after the read and the POST are done.
C9_CallbackOrder ==
    \A i \in Invocations :
        WithCode(i) =>
            /\ inv[i].log \in CallbackOrders
            /\ inv[i].posts <= 1
            /\ inv[i].posts = 1 <=> inv[i].request # NoRequest
            /\ inv[i].posts = 1 <=> inv[i].cfg # NoObject
            /\ inv[i].log = <<"validate", "read", "throw">> =>
                   /\ inv[i].posts = 0 /\ inv[i].reply = NoReply
                   /\ Finished(i) /\ inv[i].out.kind = "throw"
                   /\ inv[i].out.error \in {"NoSuchKey", "SyntaxError"}
            /\ inv[i].out.kind = "response" =>
                   /\ inv[i].log = <<"validate", "read", "post", "fetched", "respond">>
                   /\ inv[i].posts = 1 /\ inv[i].reply.kind = "body"
            /\ inv[i].out.kind = "pending" <=> ~Finished(i)
            /\ inv[i].reply # NoReply => Finished(i)

\* One exchange ran to its response, one stopped at a failed read.
C9_Witness ==
    /\ WithCode(1) /\ inv[1].out = Thrown("NoSuchKey")
    /\ inv[1].log = <<"validate", "read", "throw">>
    /\ WithCode(2) /\ inv[2].log = <<"validate", "read", "post", "fetched", "respond">>

RECURSIVE Atoms(_)
\* The atoms of the values of a sequence of <<name, value>> pairs.
Atoms(pairs) ==
    IF pairs = <<>> THEN {}
    ELSE {pairs[1][2][n] : n \in 1..Len(pairs[1][2])} \cup Atoms(Tail(pairs))

AtomsOf(s) == {s[n] : n \in 1..Len(s)}

TokenAtoms == {t[1] : t \in Tokens}
CodeAtoms == {c[1] : c \in Codes}

\* C10: a step of one invocation changes nothing but that invocation (not the
\* store, not the provisioned state, not another invocation), and a /callback
\* response carries no token but the one its own exchange returned and no
\* code; its POST carries no code but its own.
C10_Isolation ==
    /\ [][\A i \in Invocations :
            inv'[i] # inv[i] =>
                /\ store' = store /\ UNCHANGED provisioning
                /\ \A j \in Invocations \ {i} : inv'[j] = inv[j]]_vars
    /\ [](\A i \in Invocations :
            IsCallback(i) =>
                /\ Atoms(inv[i].out.headers) \cap TokenAtoms
                       \subseteq AtomsOf(inv[i].reply.body) \cap TokenAtoms
                /\ (AtomsOf(inv[i].out.body) \cup Atoms(inv[i].out.headers))
                       \cap CodeAtoms = {}
                /\ inv[i].posts > 0 =>
                       AtomsOf(inv[i].request.body) \cap CodeAtoms
                           = AtomsOf(Get(inv[i].query, <<"code">>)))

\* Two exchanges overlap: the second has answered with its own token while
\* the first, with another code, still awaits its reply.
C10_Witness ==
    /\ IsCallback(1) /\ inv[1].pc = "fetch"
    /\ IsCallback(2) /\ Finished(2)
    /\ Get(inv[1].query, <<"code">>) # Get(inv[2].query, <<"code">>)
    /\ inv[2].reply = TokenReply(TokenFor(Get(inv[2].query, <<"code">>)))
    /\ inv[2].out.statusCode = 302

====
